---- MODULE Spec2Model ----
(***************************************************************************)
(* Model of dpv/01-arithmetic/arithmetic.py: integer multiplication,       *)
(* division, modular exponentiation, gcd, modular inverse and Fermat       *)
(* primality testing built from even/double/halve.                         *)
(*                                                                         *)
(* Every function of the module is an operator computed the way the code   *)
(* computes it (same recursion, same branches).  A call is a two-step      *)
(* behaviour: Init draws the function and its arguments, the function's    *)
(* action applies it and stores what it returned or raised.  randomprime   *)
(* is the one function with a loop; each iteration is a draw of a          *)
(* candidate followed by its test.  Integers are unbounded, as in Python.  *)
(***************************************************************************)
EXTENDS Integers, Sequences, FiniteSets, TLC

VARIABLES pc, op, args, ret, wit, Nmax, cand

vars == <<pc, op, args, ret, wit, Nmax, cand>>

(* ------------------------------ bounds -------------------------------- *)

\* operands of mult, div, egcd, gcd, lcm, multinv, modexp: -MaxInt..MaxInt
MaxInt == 8
\* exponents of modexp: -1..MaxExp
MaxExp == 5
\* prime is called on every N in -MaxInt..MaxPrimeN (and on the listed N)
MaxPrimeN == 16
\* witness counts k passed to prime: -1..MaxK, and the default
MaxK == 2
\* explicit witness collections are the subsets of -1..MaxWit
MaxWit == 5
\* randomprime is called with n in -1..MaxBits
MaxBits == 11

\* default witness count of prime
DefaultK == 100

(* ------------------------ outcomes of a call -------------------------- *)

\* A call either returns a value or raises; an exception raised by a call
\* made inside a function propagates to its caller.

None == <<>>

Return(v) == [raised |-> FALSE, exc |-> "", msg |-> "", val |-> v]

Raise(e, m) == [raised |-> TRUE, exc |-> e, msg |-> m, val |-> None]

(* --------------------------- bit primitives --------------------------- *)

\* x & 1 on a two's-complement integer is the non-negative residue mod 2
even(x) == IF x % 2 = 1 THEN FALSE ELSE TRUE

double(x) == 2 * x

\* x >> 1 rounds toward minus infinity
halve(x) == x \div 2

max(a, b) == IF a >= b THEN a ELSE b

(* --------------------------- multiplication --------------------------- *)

RECURSIVE multpos_dropadd(_, _)
multpos_dropadd(x, y) ==
    IF y = 0 THEN 0
    ELSE double(multpos_dropadd(x, halve(y)))

RECURSIVE multpos(_, _)
multpos(x, y) ==
    IF y = 0 THEN 0
    ELSE LET z == multpos(x, halve(y))
         IN  IF even(y) THEN double(z) ELSE x + double(z)

mult(x, y) ==
    IF x < 0 /\ y >= 0 THEN -multpos(-x, y)
    ELSE IF x >= 0 /\ y < 0 THEN -multpos(x, -y)
    ELSE IF x < 0 /\ y < 0 THEN multpos(-x, -y)
    ELSE multpos(x, y)

square(x) == mult(x, x)

(* ------------------------------ division ------------------------------ *)

RECURSIVE divnonneg(_, _)
divnonneg(x, y) ==
    IF x < 0 \/ y < 0 THEN Raise("ValueError", "")
    ELSE IF x = 0 THEN Return(<<0, 0>>)
    ELSE IF y = 0 THEN Return(<<0, x>>)
    ELSE LET c == divnonneg(halve(x), y)
             q0 == double(c.val[1])
             r0 == double(c.val[2])
             r1 == IF ~even(x) THEN r0 + 1 ELSE r0
         IN  IF c.raised THEN c
             ELSE IF r1 >= y THEN Return(<<q0 + 1, r1 - y>>)
             ELSE Return(<<q0, r1>>)

div_nofloor(x, y) ==
    IF x = 0 THEN <<0, 0>>
    ELSE IF y = 0 THEN <<0, x>>
    ELSE LET qr == divnonneg(max(-x, x), max(y, -y)).val
             q == qr[1]
             r == qr[2]
         IN  IF x > 0 /\ y > 0 THEN <<q, r>>
             ELSE IF x < 0 /\ y > 0
                  THEN (IF r = 0 THEN <<-q, 0>> ELSE <<-q, y - r>>)
             ELSE IF x > 0 /\ y < 0
                  THEN (IF r = 0 THEN <<-q, 0>> ELSE <<-q, y + r>>)
             ELSE <<q, -r>>

div(x, y) ==
    IF x = 0 THEN <<0, 0>>
    ELSE IF y = 0 THEN <<0, x>>
    ELSE LET qr == divnonneg(max(-x, x), max(y, -y)).val
             q == qr[1]
             r == qr[2]
         IN  IF x > 0 /\ y > 0 THEN <<q, r>>
             ELSE IF x < 0 /\ y > 0
                  THEN (IF r = 0 THEN <<-q, 0>> ELSE <<-q - 1, y - r>>)
             ELSE IF x > 0 /\ y < 0
                  THEN (IF r = 0 THEN <<-q, 0>> ELSE <<-q - 1, y + r>>)
             ELSE <<q, -r>>

mod(x, N) == div(x, N)[2]

quotient(x, N) == div(x, N)[1]

(* ----------------------- modular exponentiation ----------------------- *)

RECURSIVE modexp_nomult(_, _, _)
modexp_nomult(x, y, N) ==
    IF y < 0 THEN Raise("ValueError", "y must be non-negative.")
    ELSE IF max(N, -N) = 1 THEN Return(0)
    ELSE IF y = 0 THEN Return(mod(1, N))
    ELSE LET c == modexp_nomult(x, halve(y), N)
             z == c.val
         IN  IF c.raised THEN c
             ELSE Return(mod(square(z), N))

RECURSIVE modexp(_, _, _)
modexp(x, y, N) ==
    IF y < 0 THEN Raise("ValueError", "y must be non-negative.")
    ELSE IF max(N, -N) = 1 THEN Return(0)
    ELSE IF y = 0 THEN Return(mod(1, N))
    ELSE LET c == modexp(x, halve(y), N)
             z == c.val
         IN  IF c.raised THEN c
             ELSE IF even(y) THEN Return(mod(square(z), N))
             ELSE Return(mod(mult(x, square(z)), N))

(* ------------------------- gcd, egcd, multinv ------------------------- *)

RECURSIVE gcd(_, _)
gcd(a, b) ==
    IF b = 0 THEN max(a, -a)
    ELSE gcd(b, mod(a, b))

RECURSIVE egcd_noquot(_, _)
egcd_noquot(a, b) ==
    IF b = 0 THEN (IF a < 0 THEN <<-1, 0, -a>> ELSE <<1, 0, a>>)
    ELSE LET p == egcd_noquot(b, mod(a, b))
         IN  <<p[2], p[1] - p[2], p[3]>>

RECURSIVE egcd(_, _)
egcd(a, b) ==
    IF b = 0 THEN (IF a < 0 THEN <<-1, 0, -a>> ELSE <<1, 0, a>>)
    ELSE LET p == egcd(b, mod(a, b))
             xprime == p[1]
             yprime == p[2]
             dprime == p[3]
         IN  <<yprime, xprime - mult(quotient(a, b), yprime), dprime>>

multinv_nomod(a, N) ==
    IF a = 0 THEN Raise("ValueError", "a must be non-zero.")
    ELSE IF N <= 1 THEN Raise("ValueError", "N must greater than 1.")
    ELSE LET t == egcd(a, N)
         IN  IF t[3] # 1
             THEN Raise("ValueError", "a and N are not relatively prime.")
             ELSE Return(t[1])

multinv_nocheck(a, N) ==
    LET t == egcd(a, N)
    IN  IF t[3] # 1
        THEN Raise("ValueError", "a and N are not relatively prime.")
        ELSE Return(mod(t[1], N))

multinv(a, N) ==
    IF a = 0 THEN Raise("ValueError", "a must be non-zero.")
    ELSE IF N <= 1 THEN Raise("ValueError", "N must greater than 1.")
    ELSE LET t == egcd(a, N)
         IN  IF t[3] # 1
             THEN Raise("ValueError", "a and N are not relatively prime.")
             ELSE Return(mod(t[1], N))

lcm(a, b) == quotient(mult(a, b), gcd(a, b))

(* ------------------------------- prime -------------------------------- *)

\* the k-element subsets of S: what random.sample(S, k) can return, as a
\* set (the verdict is a conjunction, so order does not matter)
RECURSIVE sample(_, _)
sample(S, k) ==
    IF k = 0 THEN {{}}
    ELSE IF k = Cardinality(S) THEN {S}
    ELSE LET e == CHOOSE e \in S : TRUE
         IN  sample(S \ {e}, k) \cup {T \cup {e} : T \in sample(S \ {e}, k - 1)}

fermat_test(a, N) == modexp(a, N - 1, N).val = 1

\* all(fermat_test(ai) for ai in a)
all_fermat(N, a) == \A ai \in a : fermat_test(ai, N)

\* the witnesses kept from an explicit collection
filter(N, a) == {ai \in a : ai < N}

\* the number of witnesses sampled when none are given
clamp(N, k) == IF k >= N THEN N - 1 ELSE k

\* prime(N, a=a) with an explicit collection a
prime(N, a) ==
    IF N <= 0 THEN FALSE
    ELSE all_fermat(N, filter(N, a))

(* ----------------------------- inputs --------------------------------- *)

Ints == -MaxInt .. MaxInt

ListedPrimes == {2, 3, 5, 7, 97}

ListedNonPrimes == {1, 0, -5, 4, 9, 100}

Listed == ListedPrimes \cup ListedNonPrimes

(* ------------------------------ machine ------------------------------- *)

Pending ==
    /\ pc = "call"
    /\ ret = Return(None)
    /\ wit = {}
    /\ Nmax = 0
    /\ cand = 0

\* one call of an arithmetic function or of prime
Init ==
    /\ Pending
    /\ \/ op \in {"mult", "div", "divnonneg"} /\ args \in [x : Ints, y : Ints]
       \/ op \in {"egcd", "gcd", "lcm"} /\ args \in [a : Ints, b : Ints]
       \/ op = "multinv" /\ args \in [a : Ints, N : Ints]
       \/ op = "modexp" /\ args \in [x : Ints, y : -1 .. MaxExp, N : Ints]
       \/ op = "prime"
          /\ args \in [N : -MaxInt .. MaxPrimeN, k : -1 .. MaxK,
                       given : {FALSE}, a : {{}}]
       \/ op = "prime"
          /\ args \in [N : Listed, k : {DefaultK}, given : {FALSE}, a : {{}}]
       \/ op = "prime"
          /\ args \in [N : -MaxInt .. MaxPrimeN, k : {DefaultK},
                       given : {TRUE}, a : SUBSET (-1 .. MaxWit)]

\* one call of randomprime
RandomprimeInit ==
    /\ Pending
    /\ op = "randomprime"
    /\ args \in [n : -1 .. MaxBits]

Done(r) ==
    /\ pc' = "done"
    /\ ret' = r
    /\ UNCHANGED <<op, args, wit, Nmax, cand>>

Mult == pc = "call" /\ op = "mult" /\ Done(Return(mult(args.x, args.y)))

Div == pc = "call" /\ op = "div" /\ Done(Return(div(args.x, args.y)))

Divnonneg == pc = "call" /\ op = "divnonneg" /\ Done(divnonneg(args.x, args.y))

Modexp ==
    pc = "call" /\ op = "modexp" /\ Done(modexp(args.x, args.y, args.N))

Gcd == pc = "call" /\ op = "gcd" /\ Done(Return(gcd(args.a, args.b)))

Egcd == pc = "call" /\ op = "egcd" /\ Done(Return(egcd(args.a, args.b)))

Multinv == pc = "call" /\ op = "multinv" /\ Done(multinv(args.a, args.N))

Lcm == pc = "call" /\ op = "lcm" /\ Done(Return(lcm(args.a, args.b)))

Prime ==
    /\ pc = "call"
    /\ op = "prime"
    /\ pc' = "done"
    /\ UNCHANGED <<op, args, Nmax, cand>>
    /\ IF args.N <= 0
       THEN wit' = {} /\ ret' = Return(FALSE)
       ELSE IF args.given
       THEN /\ wit' = filter(args.N, args.a)
            /\ ret' = Return(prime(args.N, args.a))
       ELSE LET k == clamp(args.N, args.k)
            IN  IF k < 0
                THEN /\ wit' = {}
                     /\ ret' = Raise("ValueError",
                              "Sample larger than population or is negative")
                ELSE \E s \in sample(1 .. args.N - 1, k) :
                        /\ wit' = s
                        /\ ret' = Return(all_fermat(args.N, s))

\* Nmax = modexp(2, n) - 1
RandomprimeCall ==
    /\ pc = "call"
    /\ op = "randomprime"
    /\ LET m == modexp(2, args.n, 0)
       IN  IF m.raised
           THEN Done(m)
           ELSE /\ pc' = "loop"
                /\ Nmax' = m.val - 1
                /\ UNCHANGED <<op, args, ret, wit, cand>>

\* N = random.randint(2, Nmax)
RandomprimeDraw ==
    /\ pc = "loop"
    /\ IF Nmax < 2
       THEN Done(Raise("ValueError", "empty range for randrange()"))
       ELSE \E N \in 2 .. Nmax :
               /\ pc' = "test"
               /\ cand' = N
               /\ UNCHANGED <<op, args, ret, wit, Nmax>>

\* if prime(N, a=(2, 3, 5)): return N
RandomprimeTest ==
    /\ pc = "test"
    /\ wit' = filter(cand, {2, 3, 5})
    /\ IF prime(cand, {2, 3, 5})
       THEN /\ pc' = "done"
            /\ ret' = Return(cand)
            /\ UNCHANGED <<op, args, Nmax, cand>>
       ELSE /\ pc' = "loop"
            /\ UNCHANGED <<op, args, ret, Nmax, cand>>

Next ==
    \/ Mult
    \/ Div
    \/ Divnonneg
    \/ Modexp
    \/ Gcd
    \/ Egcd
    \/ Multinv
    \/ Lcm
    \/ Prime

Spec == Init /\ [][Next]_vars

RandomprimeNext ==
    \/ RandomprimeCall
    \/ RandomprimeDraw
    \/ RandomprimeTest

RandomprimeSpec == RandomprimeInit /\ [][RandomprimeNext]_vars

(* ------------------------ reference arithmetic ------------------------ *)

Abs(x) == IF x < 0 THEN -x ELSE x

RECURSIVE Pow(_, _)
Pow(x, y) == IF y = 0 THEN 1 ELSE x * Pow(x, y - 1)

\* the residue of a that takes the sign of N (a itself when N = 0)
FloorMod(a, N) ==
    IF N > 0 THEN a % N
    ELSE IF N < 0 THEN -((-a) % (-N))
    ELSE a

Divides(d, x) == x % d = 0

IsPrime(N) == N >= 2 /\ \A d \in 2 .. N - 1 : ~Divides(d, N)

\* the greatest common divisor, 0 for (0, 0)
GreatestCommonDivisor(a, b) ==
    IF a = 0 /\ b = 0 THEN 0
    ELSE CHOOSE d \in 1 .. max(Abs(a), Abs(b)) :
            /\ Divides(d, a) /\ Divides(d, b)
            /\ \A e \in 1 .. max(Abs(a), Abs(b)) :
                  Divides(e, a) /\ Divides(e, b) => e <= d

Returned(f) == pc = "done" /\ op = f /\ ~ret.raised

Raised(f) == pc = "done" /\ op = f /\ ret.raised

(* ------------------------------- claims ------------------------------- *)

\* C1 as stated: for every x and every nonzero y, div(x, y) returns (q, r)
\* with x = y*q + r and 0 <= r < |y|.
C1_RemainderNonNegative ==
    pc = "done" /\ op = "div" /\ args.y # 0 =>
        /\ ~ret.raised
        /\ args.x = args.y * ret.val[1] + ret.val[2]
        /\ 0 <= ret.val[2]
        /\ ret.val[2] < Abs(args.y)

\* C1 amended: for every x and every nonzero y, div(x, y) returns (q, r)
\* with x = y*q + r and a remainder that takes the sign of the divisor:
\* 0 <= r < y when y > 0, y < r <= 0 when y < 0.
C1_RemainderHasDivisorSign ==
    pc = "done" /\ op = "div" /\ args.y # 0 =>
        /\ ~ret.raised
        /\ args.x = args.y * ret.val[1] + ret.val[2]
        /\ args.y > 0 => 0 <= ret.val[2] /\ ret.val[2] < args.y
        /\ args.y < 0 => args.y < ret.val[2] /\ ret.val[2] <= 0

C1_Witness ==
    /\ Returned("div")
    /\ args.x = 7
    /\ args.y = -2
    /\ ret.val = <<-4, -1>>

\* C2: for all integers x and y, mult(x, y) returns exactly x*y, which is
\* multpos of the absolute values with the sign fixed up.
C2_MultIsProduct ==
    pc = "done" /\ op = "mult" =>
        /\ ~ret.raised
        /\ ret.val = args.x * args.y
        /\ Abs(ret.val) = multpos(Abs(args.x), Abs(args.y))

C2_Witness ==
    /\ Returned("mult")
    /\ args.x = -3
    /\ args.y = 5
    /\ ret.val = -15

\* C3: for every pair a, b (negative and zero operands included), egcd(a, b)
\* returns (x, y, d) with a*x + b*y = d, d = gcd(a, b) and d >= 0; d is the
\* greatest common divisor of a and b.
C3_EgcdBezout ==
    pc = "done" /\ op = "egcd" =>
        /\ ~ret.raised
        /\ args.a * ret.val[1] + args.b * ret.val[2] = ret.val[3]
        /\ ret.val[3] = gcd(args.a, args.b)
        /\ ret.val[3] = GreatestCommonDivisor(args.a, args.b)
        /\ ret.val[3] >= 0

C3_Witness ==
    /\ Returned("egcd")
    /\ args.a = -6
    /\ args.b = 4
    /\ ret.val[3] = 2
    /\ ret.val[2] # 0

\* C4: for every a of either sign and every N > 1 with gcd(a, N) = 1,
\* multinv(a, N) returns r with 0 <= r < N and mod(mult(a, r), N) = 1.
C4_MultinvIsInverse ==
    /\ pc = "done"
    /\ op = "multinv"
    /\ args.N > 1
    /\ gcd(args.a, args.N) = 1
    => /\ ~ret.raised
       /\ 0 <= ret.val
       /\ ret.val < args.N
       /\ mod(mult(args.a, ret.val), args.N) = 1
       /\ (args.a * ret.val) % args.N = 1

C4_Witness ==
    /\ Returned("multinv")
    /\ args.a = -3
    /\ args.N = 7
    /\ ret.val = 2

C6_ListedVerdicts ==
    /\ pc = "done"
    /\ op = "prime"
    /\ ~args.given
    /\ args.k = DefaultK
    /\ args.N \in Listed
    => /\ ~ret.raised
       /\ ret.val = (args.N \in ListedPrimes)

\* C7: a False verdict of prime is definitive: whenever prime returns False,
\* N is not a prime number, for sampled witnesses and for every explicitly
\* supplied collection.
C7_FalseIsDefinitive ==
    Returned("prime") /\ ret.val = FALSE => ~IsPrime(args.N)

\* C8: every value randomprime(n) returns is a prime N with
\* 2 <= N <= 2^n - 1.
C8_ReturnsPrime ==
    Returned("randomprime") =>
        /\ IsPrime(ret.val)
        /\ 2 <= ret.val
        /\ ret.val <= Pow(2, args.n) - 1

\* C9: for all nonzero a and b, lcm(a, b) * gcd(a, b) = |mult(a, b)|.
C9_LcmTimesGcd ==
    pc = "done" /\ op = "lcm" /\ args.a # 0 /\ args.b # 0 =>
        /\ ~ret.raised
        /\ ret.val * gcd(args.a, args.b) = Abs(mult(args.a, args.b))

\* C10 as stated: multinv(a, N) never returns a value when a = 0, when
\* N <= 1 or when gcd(a, N) # 1, and the error of the third case is of a
\* kind distinct from the kind raised in the first two.
C10_NotInvertibleIsDistinctKind ==
    pc = "done" /\ op = "multinv" =>
        /\ args.a = 0 \/ args.N <= 1 => ret.raised
        /\ args.a # 0 /\ args.N > 1 /\ gcd(args.a, args.N) # 1 =>
              /\ ret.raised
              /\ ret.exc # multinv(0, args.N).exc
              /\ ret.exc # multinv(args.a, 1).exc

\* C10 amended: multinv(a, N) never returns a value when a = 0, when N <= 1
\* or when gcd(a, N) # 1; all three cases raise the same kind of error,
\* ValueError, and differ only in its message.
C10_AllRaiseValueError ==
    pc = "done" /\ op = "multinv" =>
        /\ args.a = 0 =>
              ret = Raise("ValueError", "a must be non-zero.")
        /\ args.a # 0 /\ args.N <= 1 =>
              ret = Raise("ValueError", "N must greater than 1.")
        /\ args.a # 0 /\ args.N > 1 /\ gcd(args.a, args.N) # 1 =>
              ret = Raise("ValueError", "a and N are not relatively prime.")

C10_Witness ==
    /\ Raised("multinv")
    /\ args.a = 4
    /\ args.N = 8
    /\ ret.exc = "ValueError"
    /\ ret.msg = "a and N are not relatively prime."

====
